---- MODULE Spec2Model ----
(***************************************************************************)
(* git-archive-recursive: the store registry (GitDirCollection), the       *)
(* submodule walk (recursively_iter_repos), the job scheduler              *)
(* (ParallelJobs) and the ordered assembly loop of main.                   *)
(*                                                                         *)
(* Paths are sequences of integers: the top directory is <<0>>, the        *)
(* submodule at relative path n of a repository at p is p \o <<n>>, and    *)
(* the reserved hint '--lookup' is <<-1>>.  Commits are 1..NCommits, the   *)
(* requested revision (top_rev) is commit 1.                               *)
(***************************************************************************)
EXTENDS Integers, Sequences, FiniteSets, TLC

\* ---------------------------------------------------------------- bounds
NCommits == 3
MaxLinks == 2
MaxJobs == 3
MaxNproc == 2
MaxDepthOpt == 2
MaxReg == 3
MaxNodes == 5

Commits == 1..NCommits
Names == 1..MaxLinks
Stores == {"topgit", "modgit", "lookup"}
NoDir == "None"

top == <<0>>
top_gitdir == "topgit"
top_rev == 1
LOOKUP == <<-1>>
SUPPORTED_FORMAT == {"tar"}

VARIABLES
  links,      \* links[c]: the gitlink entries of commit c's tree, in listing order
  has,        \* has[s]: the commits whose objects store s holds
  current,    \* the currently initialised submodules: <<abspath, gitdir>> pairs
  opt,        \* the parsed options: format, nproc, depth, dryrun, lookup
  pc,         \* position of main
  gitdirs,    \* GitDirCollection.gitdirs: hint -> stores, in dict insertion order
  findRet,    \* the last find call on the registry as it is: arguments and result
  stack,      \* the frames of the suspended recursively_iter_repos generators
  yielded,    \* the nodes the walk has yielded so far, in order
  total,      \* main's counter of loop iterations completed
  out,        \* the 'Dry-run:' / 'Launching' lines printed by the loop
  jobs_nproc, \* ParallelJobs.nproc
  procs,      \* every process started by launch, in start order
  pending,    \* ParallelJobs.pending: indices into procs, FIFO
  drained,    \* the processes wait_next_in_order has returned, in order
  exitOrder,  \* the order in which the started processes exited
  segfiles,   \* the segment files on disk: index -> archive content
  final,      \* the file at opt.output
  done,       \* main's counter of concatenated segments
  warnings,   \* the segment files whose cleanup printed a warning
  removed,    \* "file" once os.unlink(final_output) removed a file, "missing"
              \* once it raised FileNotFoundError, "no" before
  exitStatus, \* the exit status of the run, -1 while it runs
  diag        \* the fatal diagnostic printed, "none" if none

vars == <<links, has, current, opt, pc, gitdirs, findRet, stack, yielded, total,
          out, jobs_nproc, procs, pending, drained, exitOrder, segfiles, final,
          done, warnings, removed, exitStatus, diag>>

envVars == <<links, has, current, opt>>
walkVars == <<stack, yielded>>
jobVars == <<jobs_nproc, procs, pending, drained, exitOrder>>
fileVars == <<segfiles, final, done, warnings, removed>>

Range(s) == {s[i] : i \in 1..Len(s)}

\* ------------------------------------------------------- GitDirCollection
\* A handle given to add is a str or a Path: [kind, dir].  The registry keeps
\* Path(gitdir), that is the directory.
HintIndex(reg, path_hint) ==
  IF \E i \in 1..Len(reg) : reg[i].hint = path_hint
    THEN CHOOSE i \in 1..Len(reg) : reg[i].hint = path_hint
    ELSE 0

\* gitdir not in dirs: the list holds Path objects, and a str never equals a Path
NotInDirs(gitdir, dirs) ==
  \/ gitdir.kind = "str"
  \/ gitdir.dir \notin Range(dirs)

add(reg, path_hint, gitdir) ==
  LET reg1 == IF HintIndex(reg, path_hint) = 0
                THEN Append(reg, [hint |-> path_hint, dirs |-> <<>>])
                ELSE reg
      k == HintIndex(reg1, path_hint)
  IN IF NotInDirs(gitdir, reg1[k].dirs)
       THEN [reg1 EXCEPT ![k].dirs = Append(@, gitdir.dir)]
       ELSE reg1

\* git rev-parse -q --verify <obj>^{commit} in gitdir
is_valid_git_object(obj, gitdir) == obj \in has[gitdir]

RECURSIVE FirstValid(_, _)
FirstValid(dirs, rev) ==
  IF dirs = <<>> THEN NoDir
  ELSE IF is_valid_git_object(rev, Head(dirs)) THEN Head(dirs)
  ELSE FirstValid(Tail(dirs), rev)

\* the stores of the last hint come first
RECURSIVE AllDirsReversed(_)
AllDirsReversed(reg) ==
  IF reg = <<>> THEN <<>> ELSE AllDirsReversed(Tail(reg)) \o Head(reg).dirs

RECURSIVE AllDirs(_)
AllDirs(reg) ==
  IF reg = <<>> THEN <<>> ELSE Head(reg).dirs \o AllDirs(Tail(reg))

HintedDirs(reg, path_hint) ==
  IF HintIndex(reg, path_hint) = 0 THEN <<>> ELSE reg[HintIndex(reg, path_hint)].dirs

FindOrderMutant(reg, path_hint, rev) == FirstValid(AllDirs(reg), rev)

find(reg, path_hint, rev) ==
  IF FirstValid(HintedDirs(reg, path_hint), rev) # NoDir
    THEN FirstValid(HintedDirs(reg, path_hint), rev)
    ELSE FirstValid(AllDirs(reg), rev)

RegSize(reg) == Len(AllDirs(reg))

\* ------------------------------------------------ the registry on its own
RegHints == {top, top \o <<1>>, LOOKUP}
Handles == [kind : {"str", "path"}, dir : Stores]
NoFind == [hint |-> <<>>, rev |-> 0, ret |-> NoDir]

InitIdle ==
  /\ links = [c \in Commits |-> <<>>]
  /\ current = <<>>
  /\ opt = [format |-> "tar", nproc |-> 0, depth |-> -1, dryrun |-> FALSE,
            lookup |-> <<>>]
  /\ gitdirs = <<>>
  /\ findRet = NoFind
  /\ stack = <<>>
  /\ yielded = <<>>
  /\ total = 0
  /\ out = <<>>
  /\ jobs_nproc = 0
  /\ procs = <<>>
  /\ pending = <<>>
  /\ drained = <<>>
  /\ exitOrder = <<>>
  /\ segfiles = {}
  /\ final = [exists |-> FALSE, segs |-> <<>>]
  /\ done = 0
  /\ warnings = {}
  /\ removed = "no"
  /\ exitStatus = -1
  /\ diag = "none"

InitReg ==
  /\ InitIdle
  /\ pc = "registry"
  /\ has \in [Stores -> SUBSET {top_rev}]

RegAdd ==
  /\ pc = "registry"
  /\ RegSize(gitdirs) < MaxReg
  /\ \E path_hint \in RegHints, gitdir \in Handles :
       gitdirs' = add(gitdirs, path_hint, gitdir)
  /\ findRet' = NoFind
  /\ UNCHANGED <<envVars, pc, walkVars, total, out, jobVars, fileVars,
                 exitStatus, diag>>

RegFind ==
  /\ pc = "registry"
  /\ \E path_hint \in RegHints, rev \in {top_rev, top_rev + 1} :
       findRet' = [hint |-> path_hint, rev |-> rev,
                   ret |-> find(gitdirs, path_hint, rev)]
  /\ UNCHANGED <<envVars, pc, gitdirs, walkVars, total, out, jobVars, fileVars,
                 exitStatus, diag>>

NextReg == RegAdd \/ RegFind

SpecReg == InitReg /\ [][NextReg]_vars

\* ------------------------------------------------------------ environment
\* The gitlink entries a tree of commit c may list: distinct paths, sorted by
\* path as git lists them, each pinning a commit other than an ancestor's.
EntryAt(S, f, i) ==
  LET n == CHOOSE n \in S : Cardinality({m \in S : m < n}) = i - 1
  IN [typ |-> "commit", obj |-> f[n], path |-> n]

EntryLists(c) ==
  UNION { { [i \in 1..Cardinality(S) |-> EntryAt(S, f, i)] :
              f \in [S -> (c + 1)..NCommits] } : S \in SUBSET Names }

RECURSIVE TreesFrom(_)
TreesFrom(c) ==
  IF c > NCommits THEN {<<>>}
  ELSE { <<e>> \o t : e \in EntryLists(c), t \in TreesFrom(c + 1) }

\* The commit pinned at the relative path p below commit c in trees l, 0 if none.
RECURSIVE RevAt(_, _, _)
RevAt(l, c, p) ==
  IF p = <<>> THEN c
  ELSE LET es == {e \in Range(l[c]) : e.path = Head(p)}
       IN IF es = {} THEN 0 ELSE RevAt(l, (CHOOSE e \in es : TRUE).obj, Tail(p))

NamePaths == UNION { [1..k -> Names] : k \in 0..(NCommits - 1) }
NodesOf(l) == {p \in NamePaths : RevAt(l, top_rev, p) # 0}
Reachable(l) == {RevAt(l, top_rev, p) : p \in NodesOf(l)}

\* The trees of at most n nodes; a commit no node pins is left without entries.
Trees(n) ==
  {l \in TreesFrom(1) :
     /\ Cardinality(NodesOf(l)) <= n
     /\ \A c \in Commits \ Reachable(l) : l[c] = <<>>}

SubCommits == 2..NCommits
\* The entries of every tree are named 1..k.
Contiguous(l) == \A c \in Commits : {e.path : e \in Range(l[c])} = 1..Len(l[c])

\* The top store holds the requested revision; the submodule commits, except
\* possibly a pinned one x, are in the lookup store and, if m, in modgit.
HasChoices(l) ==
  { [s \in Stores |-> IF s = top_gitdir THEN {top_rev}
                      ELSE IF s = "modgit" THEN (IF m THEN SubCommits \ {x} ELSE {})
                      ELSE SubCommits \ {x}] :
      m \in BOOLEAN, x \in {0} \cup (Reachable(l) \ {top_rev}) }

DepthVals == (0 - 2)..MaxDepthOpt

InitProgram ==
  /\ pc = "start"
  /\ gitdirs = <<>>
  /\ findRet = NoFind
  /\ stack = <<>>
  /\ yielded = <<>>
  /\ total = 0
  /\ out = <<>>
  /\ jobs_nproc = 0
  /\ procs = <<>>
  /\ pending = <<>>
  /\ drained = <<>>
  /\ exitOrder = <<>>
  /\ segfiles = {}
  /\ done = 0
  /\ warnings = {}
  /\ removed = "no"
  /\ exitStatus = -1
  /\ diag = "none"

\* Options: nproc is read only by a real run of a supported format, depth and
\* lookup only when the format is supported.
OptChoices ==
  {o \in [format : {"tar", "zip"}, nproc : (0 - 1)..MaxNproc, depth : {-1, 0, 1},
          dryrun : BOOLEAN, lookup : {<<"lookup">>}] :
     /\ o.format = "zip" => o.depth = -1
     /\ (o.format = "zip" \/ o.dryrun) => o.nproc = 0}

STALE == [rev |-> 0, prefix |-> <<>>]
Absent == [exists |-> FALSE, segs |-> <<>>]

Init ==
  /\ links \in {l \in Trees(MaxJobs) : Contiguous(l)}
  /\ has \in {h \in HasChoices(links) : h["modgit"] # {} \/ SubCommits = {}}
  /\ current = << <<top \o <<1>>, "modgit">> >>
  /\ opt \in OptChoices
  /\ final \in {Absent, [exists |-> TRUE, segs |-> <<STALE>>]}
  /\ InitProgram

\* ------------------------------------------------------------------- main
fatal(message) ==
  /\ diag' = message
  /\ exitStatus' = 1
  /\ pc' = "exit"

RECURSIVE AddAll(_, _)
AddAll(reg, items) ==
  IF items = <<>> THEN reg
  ELSE AddAll(add(reg, Head(items)[1], Head(items)[2]), Tail(items))

\* the add calls of main, in order: the top git-dir (a str), the git-dirs of the
\* initialised submodules (Path objects), the --lookup directories (strs)
MainAdds ==
  << <<top, [kind |-> "str", dir |-> top_gitdir]>> >>
  \o [i \in 1..Len(current) |->
        <<current[i][1], [kind |-> "path", dir |-> current[i][2]]>>]
  \o [i \in 1..Len(opt.lookup) |->
        <<LOOKUP, [kind |-> "str", dir |-> opt.lookup[i]]>>]

ParallelJobsInit(nproc) == IF nproc <= 0 THEN -1 ELSE nproc

NewFrame(path, gitdir, rev, depth_count_down) ==
  [top |-> path, top_gitdir |-> gitdir, top_rev |-> rev,
   depth_count_down |-> depth_count_down, i |-> 0]

SetupFatal ==
  /\ pc = "start"
  /\ opt.format \notin SUPPORTED_FORMAT
  /\ fatal("unsupported format")
  /\ UNCHANGED <<envVars, gitdirs, findRet, walkVars, total, out, jobVars, fileVars>>

Setup ==
  /\ pc = "start"
  /\ opt.format \in SUPPORTED_FORMAT
  /\ gitdirs' = AddAll(<<>>, MainAdds)
  /\ jobs_nproc' = ParallelJobsInit(opt.nproc)
  /\ stack' = <<NewFrame(top, top_gitdir, top_rev, opt.depth)>>
  /\ total' = 0
  /\ pc' = "walk"
  /\ UNCHANGED <<envVars, findRet, yielded, out, procs, pending, drained, exitOrder,
                 fileVars, exitStatus, diag>>

\* ------------------------------------------------- recursively_iter_repos
\* git ls-tree -r --full-tree rev: every tree also lists a blob
ls_tree(rev) == <<[typ |-> "blob", obj |-> 0, path |-> 0]>> \o links[rev]

IsCommitLine(line) == line.typ = "commit"

iter_git_submodules_at_rev(gitdir, rev) == SelectSeq(ls_tree(rev), IsCommitLine)

Frame == stack[Len(stack)]
Entries(f) == iter_git_submodules_at_rev(f.top_gitdir, f.top_rev)
EntryReversed == Entries(Frame)[Len(Entries(Frame)) + 1 - Frame.i]
Entry == Entries(Frame)[Frame.i]
HasEntry == pc = "walk" /\ stack # <<>> /\ Frame.i >= 1 /\ Frame.i <= Len(Entries(Frame))
FullPath == Frame.top \o <<Entry.path>>
SetI(i) == [stack EXCEPT ![Len(stack)].i = i]
NextDepth(depth_count_down) == depth_count_down - 1
\* every entry is resolved, whatever the remaining depth
SkipEntryNever(depth_count_down) == FALSE
SkipEntryNotPositive(depth_count_down) == depth_count_down <= 0
SkipEntry(depth_count_down) == depth_count_down = 0

\* line 263: the first statement of every generator frame yields its own node
WalkYield ==
  /\ pc = "walk"
  /\ stack # <<>>
  /\ Frame.i = 0
  /\ yielded' = Append(yielded, [fullpath |-> Frame.top, gitdir |-> Frame.top_gitdir,
                                 rev |-> Frame.top_rev])
  /\ stack' = SetI(1)
  /\ pc' = "body"
  /\ UNCHANGED <<envVars, gitdirs, findRet, total, out, jobVars, fileVars,
                 exitStatus, diag>>

\* lines 265-267
WalkSkip ==
  /\ HasEntry
  /\ SkipEntry(Frame.depth_count_down)
  /\ stack' = SetI(Frame.i + 1)
  /\ UNCHANGED <<envVars, pc, gitdirs, findRet, yielded, total, out, jobVars,
                 fileVars, exitStatus, diag>>

\* lines 270-271, 289: the store is found, the child generator is created
WalkDescend ==
  /\ HasEntry
  /\ ~SkipEntry(Frame.depth_count_down)
  /\ find(gitdirs, FullPath, Entry.obj) # NoDir
  /\ findRet' = [hint |-> FullPath, rev |-> Entry.obj,
                 ret |-> find(gitdirs, FullPath, Entry.obj)]
  /\ stack' = Append(SetI(Frame.i + 1),
                     NewFrame(FullPath, find(gitdirs, FullPath, Entry.obj), Entry.obj,
                              NextDepth(Frame.depth_count_down)))
  /\ UNCHANGED <<envVars, pc, gitdirs, yielded, total, out, jobVars, fileVars,
                 exitStatus, diag>>

\* the diagnostic is printed and the loop goes on to the next entry
WalkFailContinues ==
  /\ HasEntry
  /\ ~SkipEntry(Frame.depth_count_down)
  /\ find(gitdirs, FullPath, Entry.obj) = NoDir
  /\ findRet' = [hint |-> FullPath, rev |-> Entry.obj, ret |-> NoDir]
  /\ diag' = "Could not find a git-dir"
  /\ stack' = SetI(Frame.i + 1)
  /\ UNCHANGED <<envVars, pc, gitdirs, yielded, total, out, jobVars, fileVars,
                 exitStatus>>

\* the traversal stops at the unresolved entry and main goes on to the drain
WalkFailDrains ==
  /\ HasEntry
  /\ ~SkipEntry(Frame.depth_count_down)
  /\ find(gitdirs, FullPath, Entry.obj) = NoDir
  /\ findRet' = [hint |-> FullPath, rev |-> Entry.obj, ret |-> NoDir]
  /\ diag' = "Could not find a git-dir"
  /\ pc' = "after"
  /\ UNCHANGED <<envVars, gitdirs, walkVars, total, out, jobVars, fileVars, exitStatus>>

\* lines 272-288: error(...), then sys.exit(0)
WalkFail ==
  /\ HasEntry
  /\ ~SkipEntry(Frame.depth_count_down)
  /\ find(gitdirs, FullPath, Entry.obj) = NoDir
  /\ findRet' = [hint |-> FullPath, rev |-> Entry.obj, ret |-> NoDir]
  /\ diag' = "Could not find a git-dir"
  /\ exitStatus' = 0
  /\ pc' = "exit"
  /\ UNCHANGED <<envVars, gitdirs, walkVars, total, out, jobVars, fileVars>>

\* the for loop of a frame is exhausted: the generator returns to its caller
WalkReturn ==
  /\ pc = "walk"
  /\ stack # <<>>
  /\ Frame.i > Len(Entries(Frame))
  /\ stack' = SubSeq(stack, 1, Len(stack) - 1)
  /\ UNCHANGED <<envVars, pc, gitdirs, findRet, yielded, total, out, jobVars,
                 fileVars, exitStatus, diag>>

\* StopIteration of the outermost generator ends the for loop of main
WalkStop ==
  /\ pc = "walk"
  /\ stack = <<>>
  /\ pc' = "after"
  /\ UNCHANGED <<envVars, gitdirs, findRet, walkVars, total, out, jobVars, fileVars,
                 exitStatus, diag>>

\* ------------------------------------------------------------ ParallelJobs
Node == yielded[Len(yielded)]
\* lines 383-385: the path below the top directory (opt.prefix is the empty string)
Prefix(fullpath) == Tail(fullpath)

\* the segment path is derived from the revision instead of the counter
PopenByRev(node, index) ==
  [gitdir |-> node.gitdir, rev |-> node.rev, prefix |-> Prefix(node.fullpath),
   output |-> node.rev, state |-> "running", returncode |-> -1]

\* subprocess.Popen(git --git-dir gitdir archive --output <output>.<total> rev --prefix prefix)
Popen(node, index) ==
  [gitdir |-> node.gitdir, rev |-> node.rev, prefix |-> Prefix(node.fullpath),
   output |-> index, state |-> "running", returncode |-> -1]

\* line 321: sum([ p.poll() is None for p in self.pending ])
actually_pending == Cardinality({k \in 1..Len(pending) : procs[pending[k]].state = "running"})

Running == {j \in 1..Len(procs) : procs[j].state = "running"}

\* the admission counts every queued job, exited or not
MayStartCountsAll(nproc) == nproc > 1 => Len(pending) < nproc
MayStartOffByOne(nproc) == nproc > 1 => actually_pending <= nproc
MayStart(nproc) == nproc > 1 => actually_pending < nproc
WaitsNever(nproc) == FALSE
WaitsInLaunch(nproc) == nproc = 1

DryRunNever == FALSE
IsDryRun == opt.dryrun

LogLine(step) == [step |-> step, n |-> total + 1, prefix |-> Prefix(Node.fullpath)]

\* lines 395-396, 405
BodyDryRun ==
  /\ pc = "body"
  /\ IsDryRun
  /\ out' = Append(out, LogLine("Dry-run"))
  /\ total' = total + 1
  /\ pc' = "walk"
  /\ UNCHANGED <<envVars, gitdirs, findRet, walkVars, jobVars, fileVars, exitStatus, diag>>

\* lines 398-405 and launch with nproc # 1: admission, Popen, append
BodyLaunch ==
  /\ pc = "body"
  /\ ~IsDryRun
  /\ ~WaitsInLaunch(jobs_nproc)
  /\ MayStart(jobs_nproc)
  /\ out' = Append(out, LogLine("Launching"))
  /\ procs' = Append(procs, Popen(Node, total))
  /\ pending' = Append(pending, Len(procs) + 1)
  /\ total' = total + 1
  /\ pc' = "walk"
  /\ UNCHANGED <<envVars, gitdirs, findRet, walkVars, jobs_nproc, drained, exitOrder,
                 fileVars, exitStatus, diag>>

\* launch with nproc = 1: Popen, then proc.wait()
BodyLaunchSync ==
  /\ pc = "body"
  /\ ~IsDryRun
  /\ WaitsInLaunch(jobs_nproc)
  /\ out' = Append(out, LogLine("Launching"))
  /\ procs' = Append(procs, Popen(Node, total))
  /\ pc' = "launch_wait"
  /\ UNCHANGED <<envVars, gitdirs, findRet, walkVars, total, jobs_nproc, pending,
                 drained, exitOrder, fileVars, exitStatus, diag>>

\* launch checks the exit status of the process it waited for
LaunchWaitedChecks ==
  /\ pc = "launch_wait"
  /\ procs[Len(procs)].state = "exited"
  /\ IF procs[Len(procs)].returncode = 0
       THEN /\ pending' = Append(pending, Len(procs))
            /\ total' = total + 1
            /\ pc' = "walk"
            /\ UNCHANGED <<exitStatus, diag>>
       ELSE /\ fatal("git archive command failed")
            /\ UNCHANGED <<pending, total>>
  /\ UNCHANGED <<envVars, gitdirs, findRet, walkVars, out, jobs_nproc, procs, drained,
                 exitOrder, fileVars>>

\* proc.wait() of launch returns: append, and main counts the node
LaunchWaited ==
  /\ pc = "launch_wait"
  /\ procs[Len(procs)].state = "exited"
  /\ pending' = Append(pending, Len(procs))
  /\ total' = total + 1
  /\ pc' = "walk"
  /\ UNCHANGED <<envVars, gitdirs, findRet, walkVars, out, jobs_nproc, procs, drained,
                 exitOrder, fileVars, exitStatus, diag>>

\* a git archive process exits; with status 0 it has written its segment file
JobExit ==
  \E j \in Running, rc \in {0, 1} :
    /\ procs' = [procs EXCEPT ![j].state = "exited", ![j].returncode = rc]
    /\ exitOrder' = Append(exitOrder, j)
    /\ segfiles' = IF rc = 0
                     THEN segfiles \cup {[index |-> procs[j].output, rev |-> procs[j].rev,
                                          prefix |-> procs[j].prefix]}
                     ELSE segfiles
    /\ UNCHANGED <<envVars, pc, gitdirs, findRet, walkVars, total, out, jobs_nproc,
                   pending, drained, final, done, warnings, removed, exitStatus, diag>>

\* ------------------------------------------------------- main, after the walk
\* lines 407-409
DryRunDone ==
  /\ pc = "after"
  /\ IsDryRun
  /\ exitStatus' = 0
  /\ pc' = "exit"
  /\ UNCHANGED <<envVars, gitdirs, findRet, walkVars, total, out, jobVars, fileVars, diag>>

\* the file at the output path is left as it is
UnlinkFinalKeeps ==
  /\ pc = "after"
  /\ ~IsDryRun
  /\ removed' = IF final.exists THEN "file" ELSE "missing"
  /\ done' = 0
  /\ pc' = "drain"
  /\ UNCHANGED <<envVars, gitdirs, findRet, walkVars, total, out, jobVars, segfiles,
                 final, warnings, exitStatus, diag>>

\* lines 411-417
UnlinkFinal ==
  /\ pc = "after"
  /\ ~IsDryRun
  /\ final' = Absent
  /\ removed' = IF final.exists THEN "file" ELSE "missing"
  /\ done' = 0
  /\ pc' = "drain"
  /\ UNCHANGED <<envVars, gitdirs, findRet, walkVars, total, out, jobVars, segfiles,
                 warnings, exitStatus, diag>>

can_wait == Len(pending) > 0

PopLast == Len(pending)
PopFirstExited ==
  IF \E k \in 1..Len(pending) : procs[pending[k]].state = "exited"
    THEN CHOOSE k \in 1..Len(pending) :
           /\ procs[pending[k]].state = "exited"
           /\ \A m \in 1..(k - 1) : procs[pending[m]].state # "exited"
    ELSE 1
\* pending.pop(0): the position popped, counted from 1
PopIndex == 1
NextInOrder == pending[PopIndex]
\* proc.wait() returns
HeadExited == can_wait /\ procs[NextInOrder].state = "exited"
SegmentOf(proc) == CHOOSE f \in segfiles : f.index = proc.output
Content(f) == [rev |-> f.rev, prefix |-> f.prefix]

\* wait_next_in_order returns the head of the FIFO once it has exited
wait_next_in_order ==
  /\ pending' = [k \in 1..(Len(pending) - 1) |->
                   IF k < PopIndex THEN pending[k] ELSE pending[k + 1]]
  /\ drained' = Append(drained, NextInOrder)

\* the failure is reported and the drain loop goes on with the next job
DrainFailedContinues ==
  /\ pc = "drain"
  /\ HeadExited
  /\ wait_next_in_order
  /\ procs[NextInOrder].returncode # 0
  /\ diag' = "git archive command failed"
  /\ UNCHANGED <<envVars, pc, gitdirs, findRet, walkVars, total, out, jobs_nproc, procs,
                 exitOrder, fileVars, exitStatus>>

\* lines 418-422: the job exited non-zero
DrainFailed ==
  /\ pc = "drain"
  /\ HeadExited
  /\ wait_next_in_order
  /\ procs[NextInOrder].returncode # 0
  /\ fatal("git archive command failed")
  /\ UNCHANGED <<envVars, gitdirs, findRet, walkVars, total, out, jobs_nproc, procs,
                 exitOrder, fileVars>>

\* the segment is appended and the segment file is never unlinked
DrainConcatNoUnlink ==
  /\ pc = "drain"
  /\ HeadExited
  /\ wait_next_in_order
  /\ procs[NextInOrder].returncode = 0
  /\ final' = [exists |-> TRUE,
               segs |-> Append(final.segs, Content(SegmentOf(procs[NextInOrder])))]
  /\ done' = done + 1
  /\ UNCHANGED <<envVars, pc, gitdirs, findRet, walkVars, total, out, jobs_nproc, procs,
                 exitOrder, segfiles, warnings, removed, exitStatus, diag>>

\* lines 418-431: tar --concatenate appends the segment, the segment is unlinked
DrainConcat ==
  /\ pc = "drain"
  /\ HeadExited
  /\ wait_next_in_order
  /\ procs[NextInOrder].returncode = 0
  /\ final' = [exists |-> TRUE,
               segs |-> Append(final.segs, Content(SegmentOf(procs[NextInOrder])))]
  /\ segfiles' = segfiles \ {SegmentOf(procs[NextInOrder])}
  /\ done' = done + 1
  /\ UNCHANGED <<envVars, pc, gitdirs, findRet, walkVars, total, out, jobs_nproc, procs,
                 exitOrder, warnings, removed, exitStatus, diag>>

\* lines 426-430: os.unlink(ud.output) raises, a warning is printed and the
\* segment file stays
DrainConcatKept ==
  /\ pc = "drain"
  /\ HeadExited
  /\ wait_next_in_order
  /\ procs[NextInOrder].returncode = 0
  /\ final' = [exists |-> TRUE,
               segs |-> Append(final.segs, Content(SegmentOf(procs[NextInOrder])))]
  /\ warnings' = warnings \cup {procs[NextInOrder].output}
  /\ done' = done + 1
  /\ UNCHANGED <<envVars, pc, gitdirs, findRet, walkVars, total, out, jobs_nproc, procs,
                 exitOrder, segfiles, removed, exitStatus, diag>>

\* line 425: tar exits non-zero, run() raises
DrainConcatFailed ==
  /\ pc = "drain"
  /\ HeadExited
  /\ wait_next_in_order
  /\ procs[NextInOrder].returncode = 0
  /\ fatal("command failed with exit")
  /\ UNCHANGED <<envVars, gitdirs, findRet, walkVars, total, out, jobs_nproc, procs,
                 exitOrder, fileVars>>

\* lines 433-435
Finish ==
  /\ pc = "drain"
  /\ ~can_wait
  /\ exitStatus' = 0
  /\ pc' = "exit"
  /\ UNCHANGED <<envVars, gitdirs, findRet, walkVars, total, out, jobVars, fileVars, diag>>

Next ==
  \/ SetupFatal \/ Setup
  \/ WalkYield \/ WalkSkip \/ WalkDescend \/ WalkFail \/ WalkReturn \/ WalkStop
  \/ BodyDryRun \/ BodyLaunch \/ BodyLaunchSync \/ LaunchWaited \/ JobExit
  \/ DryRunDone \/ UnlinkFinal \/ DrainFailed \/ DrainConcat \/ DrainConcatKept
  \/ DrainConcatFailed
  \/ Finish

Spec == Init /\ [][Next]_vars

\* The steps of main's own thread: it runs whenever it is not blocked in a
\* wait or in the admission poll.  Every started process eventually exits.
MainStep ==
  \/ SetupFatal \/ Setup
  \/ WalkYield \/ WalkSkip \/ WalkDescend \/ WalkFail \/ WalkReturn \/ WalkStop
  \/ BodyDryRun \/ BodyLaunch \/ BodyLaunchSync \/ LaunchWaited
  \/ DryRunDone \/ UnlinkFinal \/ DrainFailed \/ DrainConcat \/ DrainConcatKept
  \/ DrainConcatFailed
  \/ Finish

SpecLive == Init /\ [][Next]_vars /\ WF_vars(MainStep) /\ WF_vars(JobExit)

\* ------------------------------------------------------ the walk on its own
\* A dry run over every tree: the walk with no job interleaved.
InitWalk ==
  /\ links \in Trees(MaxNodes)
  /\ has \in HasChoices(links)
  /\ current \in {<<>>, << <<top \o <<1>>, "modgit">> >>}
  /\ opt \in [format : {"tar"}, nproc : {0}, depth : DepthVals,
              dryrun : {TRUE}, lookup : {<<"lookup">>}]
  /\ final = Absent
  /\ InitProgram

NextWalk ==
  \/ Setup
  \/ WalkYield \/ WalkSkip \/ WalkDescend \/ WalkFail \/ WalkReturn \/ WalkStop
  \/ BodyDryRun \/ DryRunDone

SpecWalk == InitWalk /\ [][NextWalk]_vars

\* ------------------------------------------------------------------ claims
\* The repository tree at the requested revision, by relative path.
Nodes == NodesOf(links)
Within(d) == {p \in Nodes : d < 0 \/ Len(p) <= d}
Idx(c, n) == CHOOSE i \in 1..Len(links[c]) : links[c][i].path = n

\* p comes strictly before q in the depth-first pre-order below commit c: p is a
\* proper prefix of q, or where they part p takes the entry listed first.
RECURSIVE PreBefore(_, _, _)
PreBefore(c, p, q) ==
  IF p = <<>> THEN q # <<>>
  ELSE IF q = <<>> THEN FALSE
  ELSE IF Head(p) = Head(q)
    THEN PreBefore(RevAt(links, c, <<Head(p)>>), Tail(p), Tail(q))
    ELSE Idx(c, Head(p)) < Idx(c, Head(q))

RelPath(node) == Tail(node.fullpath)
YieldedPaths == {RelPath(yielded[k]) : k \in 1..Len(yielded)}
InPreOrder ==
  \A i, j \in 1..Len(yielded) :
    i < j => PreBefore(top_rev, RelPath(yielded[i]), RelPath(yielded[j]))
WalkCompleted == pc \in {"after", "drain"} \/ (pc = "exit" /\ diag = "none")
Unresolved == diag = "Could not find a git-dir"
NodeSegment(node) == [rev |-> node.rev, prefix |-> Prefix(node.fullpath)]
StaleFile == [exists |-> TRUE, segs |-> <<STALE>>]
Launched == IF opt.dryrun THEN 0 ELSE total
OvertakenExit ==
  \E a, b \in 1..Len(exitOrder) : a < b /\ exitOrder[a] > exitOrder[b]

\* C1: the segments appended to the final archive are, position by position, the
\* segments of the nodes the walk yielded, and the walk yields in depth-first
\* pre-order, whatever the order in which the archive jobs exit.
C1_SegmentsInWalkOrder ==
  /\ InPreOrder
  /\ final # StaleFile =>
       /\ Len(final.segs) <= Len(yielded)
       /\ Len(final.segs) = done
       /\ \A i \in 1..Len(final.segs) : final.segs[i] = NodeSegment(yielded[i])

C1_Witness ==
  /\ final # StaleFile
  /\ Len(final.segs) = MaxJobs
  /\ OvertakenExit
  /\ \E k \in 1..Len(yielded) : Len(RelPath(yielded[k])) = 2

\* C2: wait_next_in_order returns the launched jobs in launch order, each once
\* and only after it has exited; can_wait holds exactly while launched jobs
\* remain undrained.
C2_DrainInLaunchOrder ==
  /\ \A k \in 1..Len(drained \o pending) : (drained \o pending)[k] = k
  /\ Len(drained \o pending) = Launched
  /\ \A k \in 1..Len(drained) : procs[drained[k]].state = "exited"
  /\ can_wait <=> Len(drained) < Launched

C2_Witness ==
  /\ Len(drained) >= 2
  /\ \E a, b \in 1..Len(exitOrder) :
       /\ a < b
       /\ exitOrder[a] > exitOrder[b]
       /\ exitOrder[a] \in Range(drained)
       /\ ~can_wait

\* C3: with a limit N > 1 at most N started jobs have not exited; with a limit
\* of 0 or below launch is never held back and never waits.
C3_RunningAtMostLimit ==
  /\ jobs_nproc > 1 => Cardinality(Running) <= jobs_nproc
  /\ (opt.nproc <= 0 /\ pc = "body" /\ ~opt.dryrun) =>
       (MayStart(jobs_nproc) /\ ~WaitsInLaunch(jobs_nproc))
  /\ opt.nproc <= 0 => pc # "launch_wait"

C3_Witness ==
  /\ jobs_nproc = MaxNproc
  /\ Cardinality(Running) = MaxNproc
  /\ pc = "body"
  /\ ~opt.dryrun
  /\ ~MayStart(jobs_nproc)

\* C4: with limit 1 a job runs only while launch waits for it: every job that
\* launch has returned from has exited, so at most one job runs at any time.
C4_OneAtATime ==
  jobs_nproc = 1 =>
    /\ Cardinality(Running) <= 1
    /\ \A j \in Running : pc = "launch_wait" /\ j = Len(procs)
    /\ \A k \in 1..Len(pending) : procs[pending[k]].state = "exited"

C4_Witness ==
  /\ jobs_nproc = 1
  /\ pc = "launch_wait"
  /\ Len(procs) = MaxJobs
  /\ Running = {MaxJobs}

\* C5: the run ends with status 0 only when no fatal condition occurred, and
\* every fatal condition ends it with a non-zero status.
C5_ExitStatus ==
  pc = "exit" => (exitStatus = 0 <=> diag = "none")

WalkPhase == {"start", "walk", "body", "launch_wait"}

\* C6: when a pinned commit is in no registered store the run ends inside the
\* walk: no job is ever drained, no segment is concatenated, and the file at
\* the output path is as it was when the run started.
C6_NoOutputWhenUnresolved ==
  /\ [](Unresolved => (pc = "exit" /\ done = 0 /\ drained = <<>>
                        /\ final \in {Absent, StaleFile}))
  /\ [][(pc \in WalkPhase) => (final' = final)]_vars
  /\ [][(~Unresolved /\ Unresolved') => pc \in WalkPhase]_vars
  /\ [][Unresolved => (final' = final /\ done' = done /\ pc' = pc)]_vars

C6_Witness ==
  /\ Unresolved
  /\ Len(procs) >= 2
  /\ segfiles # {}
  /\ final = StaleFile

\* C7: the walk yields the root first and then the gitlink entries within
\* maxDepth, each once, in depth-first pre-order; it fails only on a pinned
\* commit that no registered store holds.
C7_WalkPreOrder ==
  /\ InPreOrder
  /\ yielded # <<>> => yielded[1] = [fullpath |-> top, gitdir |-> top_gitdir,
                                     rev |-> top_rev]
  /\ \A k \in 1..Len(yielded) :
       /\ yielded[k].fullpath[1] = top[1]
       /\ RelPath(yielded[k]) \in Within(opt.depth)
       /\ yielded[k].rev = RevAt(links, top_rev, RelPath(yielded[k]))
       /\ yielded[k].rev \in has[yielded[k].gitdir]
  /\ WalkCompleted => YieldedPaths = Within(opt.depth)
  /\ Unresolved =>
       \E p \in Within(opt.depth) :
         \A d \in Range(AllDirs(gitdirs)) : RevAt(links, top_rev, p) \notin has[d]

C7_Witness ==
  /\ WalkCompleted
  /\ Len(yielded) = MaxNodes
  /\ \E k \in 1..(Len(yielded) - 1) :
       /\ Len(RelPath(yielded[k])) = 2
       /\ Len(RelPath(yielded[k + 1])) = 1

\* C8: a completed walk with maxDepth d >= 0 has yielded exactly the nodes at
\* most d levels below the root (the root alone for 0), and with a negative
\* maxDepth every node; a negative counter stays negative in every frame.
C8_DepthLimit ==
  /\ \A k \in 1..Len(stack) :
       IF opt.depth < 0
         THEN stack[k].depth_count_down < 0
         ELSE /\ stack[k].depth_count_down >= 0
              /\ stack[k].depth_count_down = opt.depth - (Len(stack[k].top) - 1)
  /\ WalkCompleted =>
       /\ opt.depth = 0 => Len(yielded) = 1 /\ yielded[1].fullpath = top
       /\ opt.depth >= 0 => YieldedPaths = {p \in Nodes : Len(p) <= opt.depth}
       /\ opt.depth < 0 => YieldedPaths = Nodes
       /\ Len(yielded) = Cardinality(YieldedPaths)

C8_Witness ==
  /\ WalkCompleted
  /\ opt.depth = 1
  /\ Len(yielded) >= 3
  /\ \E p \in Nodes : Len(p) = 2

\* C9: find returns only a registered store that holds the revision, and when a
\* store registered under the hint holds it, the first such store of the hint.
HintedHits(r) ==
  {k \in 1..Len(HintedDirs(gitdirs, r.hint)) :
     r.rev \in has[HintedDirs(gitdirs, r.hint)[k]]}

C9_FindValidAndHintFirst ==
  findRet # NoFind =>
    /\ findRet.ret # NoDir =>
         /\ findRet.ret \in Range(AllDirs(gitdirs))
         /\ findRet.rev \in has[findRet.ret]
    /\ HintedHits(findRet) # {} =>
         \E k \in HintedHits(findRet) :
           /\ findRet.ret = HintedDirs(gitdirs, findRet.hint)[k]
           /\ \A m \in HintedHits(findRet) : k <= m

C9_Witness ==
  /\ findRet # NoFind
  /\ HintedHits(findRet) # {}
  /\ 1 \notin HintedHits(findRet)
  /\ HintIndex(gitdirs, findRet.hint) > 1
  /\ FirstValid(AllDirs(gitdirs), findRet.rev) # findRet.ret

\* C10: a dry run starts no process, writes no segment file and leaves the file
\* at the output path alone; it prints one line per yielded node, and when the
\* traversal completes it has covered every node and the run ends with status 0.
C10_DryRunFrame ==
  /\ [](opt.dryrun =>
          /\ procs = <<>> /\ pending = <<>> /\ drained = <<>>
          /\ segfiles = {}
          /\ Len(out) = total
          /\ \A k \in 1..Len(out) :
               out[k] = [step |-> "Dry-run", n |-> k, prefix |-> RelPath(yielded[k])]
          /\ (pc = "exit" /\ diag = "none") =>
               /\ exitStatus = 0
               /\ Len(out) = Len(yielded)
               /\ YieldedPaths = Within(opt.depth))
  /\ [][(opt.dryrun) => (final' = final)]_vars

C10_Witness ==
  /\ opt.dryrun
  /\ pc = "exit"
  /\ exitStatus = 0
  /\ diag = "none"
  /\ Len(out) = MaxJobs
  /\ final = StaleFile

\* C11: when a real run succeeds no segment file is left (as the claim states
\* it: the cleanup cannot leave one behind).
Succeeded == pc = "exit" /\ diag = "none" /\ ~opt.dryrun
SegIndices == {f.index : f \in segfiles}

C11_AllSegmentsRemoved ==
  Succeeded => segfiles = {}

\* C11, amended: a consumed segment file is left only if its deletion failed
\* with a warning, so a successful run leaves exactly those; a step that ends
\* the run, and every later step, removes no segment file.
C11_SegmentsRemovedUnlessWarned ==
  /\ [](\A k \in 1..Len(drained) :
          (procs[drained[k]].output \in SegIndices /\ k <= done)
            => procs[drained[k]].output \in warnings)
  /\ [](Succeeded => (SegIndices = warnings /\ done = total))
  /\ [][(pc' = "exit") => (segfiles \subseteq segfiles')]_vars

C11_Witness ==
  /\ Succeeded
  /\ done = MaxJobs
  /\ segfiles = {}
  /\ warnings = {}

\* C12: a find that no store of the hint answers (or whose hint is not
\* registered) returns the first store, in the order of main's add calls, that
\* holds the revision; find returns None exactly when no registered store
\* holds the revision.
RegistrationOrder == [i \in 1..Len(MainAdds) |-> MainAdds[i][2].dir]
FoundCall == pc # "start" /\ findRet # NoFind
FellBack == FirstValid(HintedDirs(gitdirs, findRet.hint), findRet.rev) = NoDir

C13_NoStoreTwice ==
  \A k \in 1..Len(gitdirs) :
    \A i, j \in 1..Len(gitdirs[k].dirs) :
      i # j => gitdirs[k].dirs[i] # gitdirs[k].dirs[j]

\* C14: when the k-th drained job exited non-zero the run ends at once with
\* status 1: the final file holds exactly the segments of the k - 1 jobs drained
\* before it and keeps them, nothing is appended afterwards, and the jobs
\* launched after it stay in the FIFO, never waited for and never cancelled
\* (they change only by exiting on their own).
Aborted == diag = "git archive command failed"
OnlyExits ==
  /\ Len(procs') = Len(procs)
  /\ \A j \in 1..Len(procs) :
       procs'[j] # procs[j] => (procs[j].state = "running" /\ procs'[j].state = "exited")

C14_AbortAtFailedJob ==
  /\ [](Aborted =>
          /\ pc = "exit"
          /\ exitStatus = 1
          /\ drained # <<>>
          /\ procs[drained[Len(drained)]].returncode # 0
          /\ done = Len(drained) - 1
          /\ final.segs = [i \in 1..(Len(drained) - 1) |->
                             [rev |-> procs[drained[i]].rev,
                              prefix |-> procs[drained[i]].prefix]]
          /\ final.exists <=> Len(drained) > 1
          /\ pending = [i \in 1..(Len(procs) - Len(drained)) |-> Len(drained) + i])
  /\ [][Aborted' => (final' = final)]_vars
  /\ [][Aborted => (pending' = pending /\ drained' = drained /\ OnlyExits)]_vars

\* the second drained job failed after one segment was appended, and a job
\* launched after it is still running
C14_Witness ==
  /\ Aborted
  /\ Len(drained) = 2
  /\ Len(final.segs) = 1
  /\ pending # <<>>
  /\ procs[pending[1]].state = "running"

\* C15: once the walk has failed on an unresolved commit, the jobs launched
\* before it are eventually drained (as the claim states it).
C15_LaunchedJobsDrained ==
  (Unresolved /\ procs # <<>>) ~> (drained # <<>>)

\* C15, amended: the jobs launched before the failure are not cancelled, they
\* change only by exiting on their own and may still write their segment
\* files; they all stay in the FIFO, none is ever waited for, and main removes
\* no segment file.
C15_LaunchedJobsAbandoned ==
  /\ [](Unresolved =>
          /\ Len(procs) = Launched
          /\ pending = [i \in 1..Len(procs) |-> i]
          /\ \A j \in 1..Len(procs) : procs[j].output \notin warnings)
  /\ [][Unresolved => (OnlyExits /\ pending' = pending /\ segfiles \subseteq segfiles')]_vars

\* two jobs were launched before the failure: one has exited with its segment
\* file written, the other is still running
C15_Witness ==
  /\ Unresolved
  /\ Len(procs) = 2
  /\ Running # {}
  /\ \E j \in 1..Len(procs) : procs[j].returncode = 0
  /\ segfiles # {}
  /\ final = Absent

\* C16: every launch call of a real run starts exactly one process and
\* appends exactly that process to the FIFO, whatever the exit status of the
\* jobs so far (with limit 1: also of the job it has just waited for), so a
\* completed walk has launched one job per node; a failed archive command is
\* reported only by a step of the drain loop.
LaunchPhase == {"walk", "body", "launch_wait", "after"}

C16_LaunchNeverFails ==
  /\ [](pc \in LaunchPhase => (diag = "none" /\ exitStatus = -1))
  /\ [](~opt.dryrun =>
          /\ Len(procs) = total + (IF pc = "launch_wait" THEN 1 ELSE 0)
          /\ Len(pending) + Len(drained) = total
          /\ \A j \in 1..Len(procs) : procs[j].output = j - 1)
  /\ []((WalkCompleted /\ ~opt.dryrun) => Len(procs) = Len(yielded))
  /\ [][(pc = "body" /\ pc' # "body" /\ ~opt.dryrun) =>
          procs' = Append(procs, Popen(Node, total))]_vars
  /\ [][(pc \in {"body", "launch_wait"} /\ pc' = "walk" /\ ~opt.dryrun) =>
          pending' = Append(pending, Len(procs'))]_vars
  /\ [][(~Aborted /\ Aborted') => (pc = "drain")]_vars

\* limit 1: the first job exited non-zero inside launch, and every node of a
\* walk of MaxJobs nodes was launched and queued all the same
C16_Witness ==
  /\ jobs_nproc = 1
  /\ pc = "after"
  /\ Len(procs) = MaxJobs
  /\ procs[1].returncode = 1
  /\ pending = [i \in 1..MaxJobs |-> i]

\* C17: in a real run whose walk completes, the file found at the output path
\* is removed (a missing one is passed over) before anything is appended: from
\* then on the final file holds exactly the segments of the jobs drained so
\* far, and none of the stale content.
PastUnlink == removed # "no"

C17_StaleOutputRemoved ==
  /\ [](PastUnlink <=>
          /\ ~opt.dryrun
          /\ \/ pc = "drain"
             \/ pc = "exit" /\ diag \in {"none", "git archive command failed",
                                          "command failed with exit"})
  /\ [](PastUnlink =>
          /\ STALE \notin Range(final.segs)
          /\ final.exists <=> done > 0
          /\ final.segs = [i \in 1..done |->
                             [rev |-> procs[drained[i]].rev,
                              prefix |-> procs[drained[i]].prefix]])
  /\ [][(~PastUnlink /\ PastUnlink') => (final' = Absent /\ exitStatus' = -1)]_vars
  /\ [][(final'.segs # final.segs /\ final'.segs # <<>>) => PastUnlink]_vars

\* the run found a stale file, removed it and has appended the segments of all
\* its MaxJobs jobs
C17_Witness ==
  /\ removed = "file"
  /\ pc = "exit"
  /\ diag = "none"
  /\ Len(final.segs) = MaxJobs

\* C18: with every started process eventually exiting, the run terminates for
\* every limit: each launch call returns to the walk, the drain loop runs until
\* the FIFO is empty (or a drained job failed), and no job is drained before
\* the walk has launched them all.
C18_RunTerminates ==
  /\ <>(pc = "exit" /\ exitStatus \in {0, 1})
  /\ [](pc = "exit" => (pending = <<>> \/ opt.dryrun \/ diag # "none"))
  /\ [](drained # <<>> => (pc \in {"drain", "exit"} /\ Len(procs) = Len(yielded)))
  /\ [][(pc \in {"body", "launch_wait"} /\ pc' # pc) => (pc' \in {"walk", "launch_wait"})]_vars
  /\ [][(pc = "drain" /\ pc' # pc) => (pc' = "exit")]_vars

\* limit MaxNproc with MaxJobs jobs: the admission had to wait, and the run
\* ended with every job drained
C18_Witness ==
  /\ pc = "exit"
  /\ exitStatus = 0
  /\ jobs_nproc = MaxNproc
  /\ Len(drained) = MaxJobs
  /\ pending = <<>>
  /\ OvertakenExit

\* C19: the j-th job started is the job of the j-th yielded node and writes
\* the segment path of index j - 1, so no two jobs and no two segment files
\* share a path, and the k-th job drained is the one with index k - 1.
C19_SequenceIndices ==
  /\ \A j \in 1..Len(procs) :
       /\ j <= Len(yielded)
       /\ procs[j].output = j - 1
       /\ procs[j].gitdir = yielded[j].gitdir
       /\ procs[j].rev = yielded[j].rev
       /\ procs[j].prefix = Prefix(yielded[j].fullpath)
  /\ \A i, j \in 1..Len(procs) : procs[i].output = procs[j].output => i = j
  /\ \A f, g \in segfiles : f.index = g.index => f = g
  /\ \A f \in segfiles : \E j \in 1..Len(procs) :
       procs[j].output = f.index /\ procs[j].rev = f.rev /\ procs[j].prefix = f.prefix
  /\ \A k \in 1..Len(drained) : procs[drained[k]].output = k - 1

\* the same store and revision at two paths: both jobs wrote their own segment
\* file, and both were drained
C19_Witness ==
  \E i, j \in 1..Len(drained) :
    /\ i < j
    /\ procs[i].gitdir = procs[j].gitdir
    /\ procs[i].rev = procs[j].rev
    /\ procs[i].prefix # procs[j].prefix
    /\ Len(final.segs) >= j
    /\ final.segs[i].rev = final.segs[j].rev

\* C20: find is called only for the entries of a frame whose remaining depth
\* is not 0, that is only for entries within the depth limit; the walk fails
\* only on such an entry, so when every commit that no registered store holds
\* is pinned beyond the limit only, the run does not fail.
Unheld(c) == \A d \in Range(AllDirs(gitdirs)) : ~is_valid_git_object(c, d)
UnheldNodes == {p \in Nodes : Unheld(RevAt(links, top_rev, p))}
Level(hint) == Len(hint) - 1

C20_NoFindBeyondDepth ==
  /\ [][(findRet' # findRet) => (Frame.depth_count_down # 0)]_vars
  /\ []((findRet # NoFind /\ opt.depth >= 0) => Level(findRet.hint) <= opt.depth)
  /\ [](Unresolved => (findRet.ret = NoDir /\ Tail(findRet.hint) \in Within(opt.depth)
                        /\ Tail(findRet.hint) \in UnheldNodes))
  /\ []((pc # "start" /\ UnheldNodes \cap Within(opt.depth) = {}) => ~Unresolved)

\* limit 1: a commit that no store holds is pinned two levels down, and the
\* walk completed with the nodes of level 1
C20_Witness ==
  /\ WalkCompleted
  /\ opt.depth = 1
  /\ Len(yielded) >= 2
  /\ \E p \in UnheldNodes : Len(p) = 2
  /\ findRet # NoFind

====
